---------------------------- MODULE Spec2Model ----------------------------
(***************************************************************************)
(* Model of voice_recog.py: the SQLite speaker store, register_speaker,    *)
(* identify_speaker, the /record, /register and /classify handlers with    *)
(* the external ffmpeg capture writer, and remove_noise.                   *)
(*                                                                         *)
(* Time is counted in ticks of half a second (the poll interval of the     *)
(* handlers).  Cosine distances are exact rationals [num, den]: the        *)
(* fingerprints of the model have integer norms, so 1 - u.v/(|u||v|) is    *)
(* the fraction (|u||v| - u.v) / (|u||v|).                                 *)
(***************************************************************************)
EXTENDS Integers, Sequences, FiniteSets, TLC

\* ------------------------------------------------------------------ inputs

\* Names a client may send; "" is the empty name.
Names == {"alice", "bob"}
NameInputs == Names \cup {""}

\* Fingerprints the embedding model may yield.  All have an integer norm,
\* and none is the zero vector (for which scipy's cosine is nan).
\* With E2 as the query: E1 is at distance exactly 0.7, E3 at 0.68, E4 at 0.72.
E1 == <<10, 0, 0, 0>>
E2 == <<3, 9, 3, 1>>
E3 == <<7, -1, 5, 5>>
E4 == <<5, -1, 5, 7>>
E5 == <<2, 2, 1, 0>>
\* A fingerprint of another dimensionality.
F1 == <<2, 2, 1>>
Fingerprints == {E1, E2, E3, E4, E5, F1}

\* ------------------------------------------------------- program constants

\* DURATION = 10 (seconds)
DURATION == 10
\* SAMPLE_RATE = 16000
SAMPLE_RATE == 16000
\* max_wait = 5 (seconds) in /register and /classify
max_wait == 5
\* time.sleep(2) after the file was seen
settle_sleep == 2
\* ticks per second: time.sleep(0.5) is one tick
TicksPerSecond == 2

\* ---------------------------------------------------------------- helpers

RECURSIVE SumTo(_, _)
SumTo(f, n) == IF n = 0 THEN 0 ELSE f[n] + SumTo(f, n - 1)

\* np.dot(u, v) for vectors of the same length
Dot(u, v) == SumTo([i \in 1..Len(u) |-> u[i] * v[i]], Len(u))

RECURSIVE ISqrtFrom(_, _)
ISqrtFrom(n, r) == IF (r + 1) * (r + 1) > n THEN r ELSE ISqrtFrom(n, r + 1)
\* floor of the square root
ISqrt(n) == ISqrtFrom(n, 0)

\* sqrt(u.u); exact for the fingerprints of the model
Norm(u) == ISqrt(Dot(u, u))

\* ---------------------------------------------------- scores (rationals)

Rat(n, d) == [num |-> n, den |-> d]
\* float("inf")
Inf == Rat(1, 0)
\* a < b for rationals with den >= 0 (den = 0 is +infinity)
RatLt(a, b) == a.num * b.den < b.num * a.den

\* scipy.spatial.distance.cosine(u, v) = 1 - u.v / (|u| |v|)
cosine(u, v) == LET d == Norm(u) * Norm(v) IN Rat(d - Dot(u, v), d)

\* floor division that also serves negative numerators
FloorDiv(a, b) == IF a >= 0 THEN a \div b ELSE -((-a + b - 1) \div b)

\* round(a / b) to the nearest integer, ties to even, b > 0
RoundDiv(a, b) ==
  LET q == FloorDiv(a, b)
      r == a - q * b
  IN  IF 2 * r < b THEN q
      ELSE IF 2 * r > b THEN q + 1
      ELSE IF q % 2 = 0 THEN q ELSE q + 1

\* f"{(1-score)*100:.2f}%": the percentage rounded to two decimals, kept as
\* the number of hundredths of a percent together with the "%" suffix.
FormatPercent(score) ==
  <<RoundDiv(10000 * (score.den - score.num), score.den), "%">>

\* ------------------------------------------------------- blob (de)coding

\* One 32-bit value as four little-endian bytes (two's complement of the
\* component; the components of the model fit in the low half).
Bytes4(x) ==
  LET lo == x % 65536
      hi == (IF x >= 0 THEN 0 ELSE 65535)
  IN  <<lo % 256, lo \div 256, hi % 256, hi \div 256>>
UnBytes4(b) ==
  LET lo == b[1] + 256 * b[2]
      hi == b[3] + 256 * b[4]
  IN  IF hi >= 32768 THEN lo - 65536 ELSE lo

RECURSIVE Flatten(_)
Flatten(s) == IF s = <<>> THEN <<>> ELSE Head(s) \o Flatten(Tail(s))

\* embedding.tobytes()
tobytes(v) == Flatten([i \in 1..Len(v) |-> Bytes4(v[i])])

\* np.frombuffer(emb_blob, dtype=np.float32)
frombuffer(b) ==
  [i \in 1..(Len(b) \div 4) |-> UnBytes4(SubSeq(b, 4 * i - 3, 4 * i))]

\* ------------------------------------------------------------ values

\* The value extract_embedding hands back: None or a vector.
None == [isNone |-> TRUE, vec |-> <<>>]
Vec(v) == [isNone |-> FALSE, vec |-> v]

\* A call either returns a value or raises.
Return(v) == [raised |-> FALSE, val |-> v, exc |-> ""]
Raise(e) == [raised |-> TRUE, val |-> <<>>, exc |-> e]

\* extract_embedding(audio_file): conditioning followed by the embedding
\* model.  It yields a fingerprint, an empty vector, None, or raises.
ExtractOutcomes ==
  {Return(Vec(v)) : v \in Fingerprints \cup {<<>>}}
    \cup {Return(None), Raise("ExtractionFailed")}

\* What sqlite3 does on a call: work, or raise sqlite3.Error.
StoreOutcomes == {"ok", "sqlite3.Error"}

\* ------------------------------------------------------------- the store

\* CREATE TABLE IF NOT EXISTS speakers (name TEXT PRIMARY KEY, embedding BLOB):
\* the table is the sequence of its rows in rowid order.
initialize_db == <<>>

Row(n, b) == [name |-> n, embedding |-> b]

\* InsertOrReplace as a plain INSERT that keeps the old row.
InsertAppend(table, n, b) == Append(table, Row(n, b))

\* INSERT OR REPLACE INTO speakers (name, embedding) VALUES (?, ?): the row
\* that holds the name is deleted and the new row gets the next rowid.
InsertOrReplace(table, n, b) ==
  SelectSeq(table, LAMBDA r : r.name # n) \o <<Row(n, b)>>

\* SELECT name, embedding FROM speakers; fetchall()
SelectAll(table) == table

\* ------------------------------------------------------ register_speaker

RegisteredMsg(n) == <<"Speaker registered successfully", n>>
FailedExtractMsg(n) == <<"Failed to extract voice features for", n>>
RegisterErrorMsg(e) == <<"Error in register_speaker", e>>

\* register_speaker(name, audio_file): [out, db].  ext is what
\* extract_embedding does on the file, st what sqlite3 does.
register_speaker(n, ext, st, table) ==
  IF ext.raised
    THEN [out |-> Raise(RegisterErrorMsg(ext.exc)), db |-> table]
  ELSE IF ext.val.isNone \/ Len(ext.val.vec) = 0
    THEN [out |-> Return(FailedExtractMsg(n)), db |-> table]
  ELSE IF st # "ok"
    THEN [out |-> Raise(RegisterErrorMsg(st)), db |-> table]
  ELSE [out |-> Return(RegisteredMsg(n)),
        db |-> InsertOrReplace(table, n, tobytes(ext.val.vec))]

\* ------------------------------------------------------ identify_speaker

EmptyMap == [n \in {} |-> <<0, "%">>]

\* The dictionaries identify_speaker returns.  hasPerson and hasConfidence
\* say whether the "person" and "confidence" keys are present.
Result(s, m, hp, p, hc, c, probs) ==
  [status |-> s, message |-> m, hasPerson |-> hp, person |-> p,
   hasConfidence |-> hc, confidence |-> c, probabilities |-> probs]
ErrorResult(m) == Result("error", m, FALSE, "", FALSE, <<0, "%">>, EmptyMap)

\* The threshold of the matching decision.
Threshold == Rat(7, 10)

\* Accept with "<=" in place of "<".
AcceptLe(score) == ~RatLt(Threshold, score)

\* best_score < 0.7
Accept(score) == RatLt(score, Threshold)

\* The state of the loop over the fetched rows.
\* best_match is <<>> for None and <<name>> otherwise.
LoopInit == [best_match |-> <<>>, best_score |-> Inf, all_scores |-> EmptyMap]

\* all_scores[name] = value
DictSet(d, k, v) == [x \in DOMAIN d \cup {k} |-> IF x = k THEN v ELSE d[x]]

\* Skip that scores the row as zero instead of leaving it out.
SkipAsZero(acc, n) ==
  [acc EXCEPT !.all_scores = DictSet(acc.all_scores, n, <<0, "%">>)]

\* "continue": a row whose shape differs from the query's leaves no trace.
Skip(acc, n) == acc

\* LoopStep whose update of the best candidate uses "<=": a later row at
\* the same distance replaces the earlier one.
LoopStepLe(acc, row, input_embedding) ==
  LET stored_embedding == frombuffer(row.embedding)
      score == cosine(input_embedding, stored_embedding)
  IN  IF Len(stored_embedding) # Len(input_embedding) THEN Skip(acc, row.name)
      ELSE [best_match |-> IF ~RatLt(acc.best_score, score)
                             THEN <<row.name>> ELSE acc.best_match,
            best_score |-> IF ~RatLt(acc.best_score, score)
                             THEN score ELSE acc.best_score,
            all_scores |-> DictSet(acc.all_scores, row.name,
                                   FormatPercent(score))]

\* One iteration of "for name, emb_blob in speakers".
LoopStep(acc, row, input_embedding) ==
  LET stored_embedding == frombuffer(row.embedding)
      score == cosine(input_embedding, stored_embedding)
  IN  IF Len(stored_embedding) # Len(input_embedding) THEN Skip(acc, row.name)
      ELSE [best_match |-> IF RatLt(score, acc.best_score)
                             THEN <<row.name>> ELSE acc.best_match,
            best_score |-> IF RatLt(score, acc.best_score)
                             THEN score ELSE acc.best_score,
            all_scores |-> DictSet(acc.all_scores, row.name,
                                   FormatPercent(score))]

RECURSIVE Loop(_, _, _)
Loop(acc, speakers, input_embedding) ==
  IF speakers = <<>> THEN acc
  ELSE Loop(LoopStep(acc, Head(speakers), input_embedding),
            Tail(speakers), input_embedding)

\* The decision after the loop.
Decide(acc) ==
  IF acc.best_match = <<>>
    THEN ErrorResult(<<"Could not compare voice with registered users.">>)
  ELSE LET confidence == FormatPercent(acc.best_score)
           best == acc.best_match[1]
       IN  IF Accept(acc.best_score)
             THEN Result("granted", <<"Welcome", best>>, TRUE, best,
                         TRUE, confidence, acc.all_scores)
             ELSE Result("denied", <<"ACCESS DENIED">>, FALSE, "",
                         TRUE, confidence, acc.all_scores)

IdentifyErrorMsg(e) == <<"Error during identification", e>>

\* NoSpeakers that denies access instead of reporting an error.
NoSpeakersDenied ==
  Result("denied", <<"ACCESS DENIED">>, FALSE, "", TRUE, <<0, "%">>, EmptyMap)

\* "if not speakers": the answer for an empty table.
NoSpeakers == ErrorResult(<<"No registered speakers found.">>)

\* IdentifyExcept that lets the exception go on to the caller.
IdentifyReraise(e) == Raise(e)

\* "except Exception as e": the exception becomes an error dictionary.
IdentifyExcept(e) == Return(ErrorResult(IdentifyErrorMsg(e)))

\* identify_speaker(audio_file): the dictionary it returns.  ext is what
\* extract_embedding does on the file, st what sqlite3 does on the read.
\* input_embedding.shape on None raises AttributeError in the loop.
identify_speaker(ext, st, table) ==
  IF ext.raised THEN IdentifyExcept(ext.exc)
  ELSE IF st # "ok" THEN IdentifyExcept(st)
  ELSE IF SelectAll(table) = <<>> THEN Return(NoSpeakers)
  ELSE IF ext.val.isNone THEN IdentifyExcept("AttributeError")
  ELSE Return(Decide(Loop(LoopInit, SelectAll(table), ext.val.vec)))

\* ------------------------------------------------------------- the state

VARIABLES
  db,        \* the speakers table
  enrolled,  \* history: name -> <<>> or <<fingerprint of its latest enrollment>>
  writer,    \* the ffmpeg process: "none", "spawned", "writing", "done", "failed"
  file,      \* the recording file: "absent", "partial", "complete"
  wleft,     \* ticks of audio the writer has still to write
  h,         \* the /register or /classify request in progress
  resp,      \* the response to the latest request
  call,      \* history: the call of the core the latest request made
  audio,     \* remove_noise: the number of samples of its input
  sr,        \* remove_noise: the sample rate
  cond       \* remove_noise: what it gave back

vars == <<db, enrolled, writer, file, wleft, h, resp, call, audio, sr, cond>>

\* The "file" parameter of a request: absent, the path /record answered, or
\* a path where no file is.
FileParams == {"None", "rec", "elsewhere"}

Idle == [pc |-> "idle", route |-> "", name |-> "", file |-> "None",
         wait_time |-> 0, left |-> 0]

\* No call of the core.  Of a call: its arguments, what extract_embedding
\* and sqlite3 did, the recording file and the writer as the call was made,
\* whether the core raised, whether the table changed and whether the name
\* was enrolled before.
NoCall == [op |-> "none", name |-> "", ext |-> Return(None), st |-> "ok",
           file |-> "absent", writer |-> "none", raised |-> FALSE,
           dbChanged |-> FALSE, replaced |-> FALSE]

\* A response: a JSON body, or the exception that left the handler.
\* route and name are the request's route and "name" parameter.
Json(route, n, body) ==
  [kind |-> "json", route |-> route, name |-> n, body |-> body]
Unhandled(route, n, e) ==
  [kind |-> "exception", route |-> route, name |-> n,
   body |-> ErrorResult(<<e>>)]
NoResp == [kind |-> "none", route |-> "", name |-> "",
           body |-> ErrorResult(<<>>)]

\* jsonify({"status": ..., "message": ...})
StatusMessage(s, m) == Result(s, m, FALSE, "", FALSE, <<0, "%">>, EmptyMap)

\* os.path.exists(file_path) for a path that is a string
exists(path) == path = "rec" /\ file # "absent"

InitWeb ==
  /\ db = initialize_db
  /\ enrolled = [n \in NameInputs |-> <<>>]
  /\ writer = "none"
  /\ file = "absent"
  /\ wleft = 0
  /\ h = Idle
  /\ resp = NoResp
  /\ call = NoCall

\* --------------------------------------------------- capture: /record

\* /record: Popen starts ffmpeg on a fresh path, or raises.
record ==
  /\ h.pc = "idle"
  /\ writer \in {"none", "done", "failed"}
  /\ \E popen \in {"ok", "OSError"} :
       IF popen = "ok"
         THEN /\ writer' = "spawned"
              /\ file' = "absent"
              /\ wleft' = 0
              /\ resp' = Json("record", "",
                              StatusMessage("success", <<"Recording">>))
         ELSE /\ resp' = Json("record", "",
                              StatusMessage("error", <<"Recording error", popen>>))
              /\ UNCHANGED <<writer, file, wleft>>
  /\ call' = NoCall
  /\ UNCHANGED <<db, enrolled, h, audio, sr, cond>>

\* ffmpeg opens its output: the file exists from now on.
WriterCreate ==
  /\ writer = "spawned"
  /\ writer' = "writing"
  /\ file' = "partial"
  /\ wleft' = DURATION * TicksPerSecond
  /\ UNCHANGED <<db, enrolled, h, resp, call, audio, sr, cond>>

\* ffmpeg cannot read the stream and exits without an output file.
WriterFail ==
  /\ writer = "spawned"
  /\ writer' = "failed"
  /\ UNCHANGED <<db, enrolled, file, wleft, h, resp, call, audio, sr, cond>>

\* ffmpeg has written DURATION seconds and closes the file.
WriterFinish ==
  /\ writer = "writing"
  /\ wleft = 0
  /\ writer' = "done"
  /\ file' = "complete"
  /\ UNCHANGED <<db, enrolled, wleft, h, resp, call, audio, sr, cond>>

\* Half a second passes: for the writer and for a sleeping handler.
Tick ==
  /\ h.pc \in {"idle", "nap", "settle"}
  /\ ~(writer = "writing" /\ wleft = 0)
  /\ h.pc \in {"nap", "settle"} \/ writer = "writing"
  /\ wleft' = IF writer = "writing" THEN wleft - 1 ELSE wleft
  /\ h' = CASE h.pc = "nap" ->
                 [h EXCEPT !.pc = "check", !.wait_time = h.wait_time + 1]
            [] h.pc = "settle" ->
                 [h EXCEPT !.pc = IF h.left = 1 THEN "invoke" ELSE "settle",
                           !.left = h.left - 1]
            [] OTHER -> h
  /\ UNCHANGED <<db, enrolled, writer, file, resp, call, audio, sr, cond>>

\* ------------------------------------------- /register and /classify

\* NameMissing without the check.
NameMissingNever(n) == FALSE

\* "if not name"
NameMissing(n) == n = ""

\* "if not file_path"
FileMissing(path) == path = "None"

Polling(route, n, path) ==
  [pc |-> "check", route |-> route, name |-> n, file |-> path,
   wait_time |-> 0, left |-> 0]

\* /register up to its wait loop.  os.path.exists(None) raises TypeError,
\* which no handler code catches.
register_start ==
  /\ h.pc = "idle"
  /\ \E n \in NameInputs, path \in FileParams :
       IF NameMissing(n)
         THEN /\ resp' = Json("register", n, StatusMessage("error",
                            <<"No name provided for registration">>))
              /\ h' = h
         ELSE IF path = "None"
           THEN /\ resp' = Unhandled("register", n, "TypeError")
                /\ h' = h
           ELSE /\ resp' = NoResp
                /\ h' = Polling("register", n, path)
  /\ call' = NoCall
  /\ UNCHANGED <<db, enrolled, writer, file, wleft, audio, sr, cond>>

\* /classify up to its wait loop.
classify_start ==
  /\ h.pc = "idle"
  /\ \E path \in FileParams :
       IF FileMissing(path)
         THEN /\ resp' = Json("classify", "", StatusMessage("error",
                            <<"No file path provided">>))
              /\ h' = h
         ELSE /\ resp' = NoResp
              /\ h' = Polling("classify", "", path)
  /\ call' = NoCall
  /\ UNCHANGED <<db, enrolled, writer, file, wleft, audio, sr, cond>>

\* "while not os.path.exists(file_path) and wait_time < max_wait": either
\* time.sleep(0.5) is entered or the loop is left.
PollCheck ==
  /\ h.pc = "check"
  /\ h' = IF ~exists(h.file) /\ h.wait_time < max_wait * TicksPerSecond
            THEN [h EXCEPT !.pc = "nap"]
            ELSE [h EXCEPT !.pc = "post"]
  /\ UNCHANGED <<db, enrolled, writer, file, wleft, resp, call, audio, sr, cond>>

\* "if not os.path.exists(file_path)" after the loop, then time.sleep(2).
PostCheck ==
  /\ h.pc = "post"
  /\ IF ~exists(h.file)
       THEN /\ resp' = Json(h.route, h.name, StatusMessage("error",
                          <<"Recording file not found">>))
            /\ h' = Idle
       ELSE /\ resp' = resp
            /\ h' = [h EXCEPT !.pc = "settle",
                              !.left = settle_sleep * TicksPerSecond]
  /\ UNCHANGED <<db, enrolled, writer, file, wleft, call, audio, sr, cond>>

\* RegisterResponse whose except branch answers "success" as well.
RegisterResponseSuccess(out) ==
  StatusMessage("success", IF out.raised THEN <<out.exc>> ELSE out.val)

\* /register, "try: message = register_speaker(name, file_path) ... except":
\* the body it answers with.
RegisterResponse(out) ==
  IF out.raised
    THEN StatusMessage("error", <<"Error during registration", out.exc>>)
    ELSE StatusMessage("success", out.val)

\* /classify: "result = identify_speaker(file_path); return jsonify(result)".
ClassifyResponse(n, out) ==
  IF out.raised THEN Unhandled("classify", n, out.exc)
  ELSE Json("classify", n, out.val)

Called(op, n, ext, st, raised, changed) ==
  [op |-> op, name |-> n, ext |-> ext, st |-> st, file |-> file,
   writer |-> writer, raised |-> raised, dbChanged |-> changed,
   replaced |-> op = "register" /\ \E i \in 1..Len(db) : db[i].name = n]

\* /register after the sleep: register_speaker on the file as it is now.
register_finish ==
  /\ h.pc = "invoke"
  /\ h.route = "register"
  /\ \E ext \in ExtractOutcomes, st \in StoreOutcomes :
       LET r == register_speaker(h.name, ext, st, db) IN
         /\ db' = r.db
         /\ enrolled' = IF r.out = Return(RegisteredMsg(h.name))
                          THEN [enrolled EXCEPT ![h.name] = <<ext.val.vec>>]
                          ELSE enrolled
         /\ resp' = Json("register", h.name, RegisterResponse(r.out))
         /\ call' = Called("register", h.name, ext, st, r.out.raised,
                           r.db # db)
  /\ h' = Idle
  /\ UNCHANGED <<writer, file, wleft, audio, sr, cond>>

\* /classify after the sleep: identify_speaker on the file as it is now.
classify_finish ==
  /\ h.pc = "invoke"
  /\ h.route = "classify"
  /\ \E ext \in ExtractOutcomes, st \in StoreOutcomes :
       LET out == identify_speaker(ext, st, db) IN
         /\ resp' = ClassifyResponse(h.name, out)
         /\ call' = Called("identify", h.name, ext, st, out.raised, FALSE)
  /\ h' = Idle
  /\ UNCHANGED <<db, enrolled, writer, file, wleft, audio, sr, cond>>

InitCondIdle ==
  /\ audio = 0
  /\ sr = SAMPLE_RATE
  /\ cond = [state |-> "none", raised |-> FALSE, len |-> 0]

Init == InitWeb /\ InitCondIdle

Next ==
  \/ record
  \/ WriterCreate
  \/ WriterFail
  \/ WriterFinish
  \/ Tick
  \/ register_start
  \/ classify_start
  \/ PollCheck
  \/ PostCheck
  \/ register_finish
  \/ classify_finish

Spec == Init /\ [][Next]_vars

\* ---------------------------------------------------------- remove_noise
\* A waveform is represented by its number of samples: the filter and the
\* gate work sample by sample, and the spectral stage changes the count.

\* order=5 of butter_highpass / apply_highpass_filter
order == 5
\* librosa.stft / librosa.istft: n_fft defaults to 2048, hop_length to n_fft // 4
n_fft == 2048
hop_length == n_fft \div 4

Min(a, b) == IF a < b THEN a ELSE b

\* filtfilt(b, a, data) with b, a = butter(order, ...): len(a) = len(b) =
\* order + 1, padlen = 3 * max(len(a), len(b)); the input must be longer
\* than padlen, else ValueError.
apply_highpass_filter(n) ==
  IF n <= 3 * (order + 1) THEN Raise("ValueError") ELSE Return(n)

\* librosa.stft(y) with center=True: the number of frames
stft(n) == 1 + n \div hop_length

\* librosa.istft(D) without length: the number of samples
istft(frames) == hop_length * (frames - 1)

\* FixLength that only truncates.
FixLengthNoPad(denoised, n) == Min(denoised, n)

\* "Ensure same length as original": audio_denoised[:len(audio)], or np.pad
\* on the right by len(audio) - len(audio_denoised).
FixLength(denoised, n) ==
  IF denoised >= n THEN Min(denoised, n) ELSE denoised + (n - denoised)

\* remove_noise(audio, sr)
remove_noise(n, rate) ==
  LET audio_filtered == apply_highpass_filter(n) IN
    IF audio_filtered.raised THEN audio_filtered
    ELSE LET audio_gated == audio_filtered.val IN
      IF 2 * n > rate
        THEN Return(FixLength(istft(stft(audio_gated)), n))
        ELSE Return(audio_gated)

\* The longest waveform, in samples.
MaxSamples == 8704
SampleRates == {SAMPLE_RATE, SAMPLE_RATE \div 2}

InitCond ==
  /\ audio \in 0..MaxSamples
  /\ sr \in SampleRates
  /\ cond = [state |-> "none", raised |-> FALSE, len |-> 0]

\* One call of remove_noise.
condition ==
  /\ cond.state = "none"
  /\ LET r == remove_noise(audio, sr) IN
       cond' = [state |-> "done", raised |-> r.raised,
                len |-> IF r.raised THEN 0 ELSE r.val]
  /\ UNCHANGED <<db, enrolled, writer, file, wleft, h, resp, call, audio, sr>>

InitConditioner == InitWeb /\ InitCond

NextCond == condition

SpecCond == InitConditioner /\ [][NextCond]_vars


\* ================================================================ claims

\* The latest request reached the comparison of identify_speaker: the
\* extraction gave a vector and the table was read.
Compared ==
  /\ call.op = "identify"
  /\ ~call.ext.raised
  /\ ~call.ext.val.isNone
  /\ call.st = "ok"
Query == call.ext.val.vec
EnrolledNames == {n \in NameInputs : enrolled[n] # <<>>}
ComparableNames == {n \in EnrolledNames : Len(enrolled[n][1]) = Len(Query)}
Distance(n) == cosine(Query, enrolled[n][1])
ExactlyThreshold(d) == 10 * d.num = 7 * d.den

\* C1: with at least one comparable enrolled identity, identify_speaker
\* answers "granted" if and only if some (hence the minimum) cosine distance
\* is strictly below 0.7, and "denied" otherwise; a minimum of exactly 0.7
\* is denied.
C1_ThresholdBoundary ==
  (Compared /\ ComparableNames # {}) =>
    /\ resp.kind = "json"
    /\ resp.body.status \in {"granted", "denied"}
    /\ resp.body.status = "granted" <=>
         \E n \in ComparableNames : 10 * Distance(n).num < 7 * Distance(n).den

\* C1 witness: the minimum distance is exactly 0.7 and access is denied.
C1_Witness ==
  /\ Compared
  /\ ComparableNames # {}
  /\ \E n \in ComparableNames : ExactlyThreshold(Distance(n))
  /\ \A n \in ComparableNames : 10 * Distance(n).num >= 7 * Distance(n).den
  /\ resp.body.status = "denied"

RowsOf(n) == {i \in 1..Len(db) : db[i].name = n}

\* C2: the table holds exactly one row for every name that was enrolled
\* successfully and none for any other name, and the row's blob is the
\* fingerprint of the latest successful enrollment of that name.
C2_Upsert ==
  \A n \in NameInputs :
    IF enrolled[n] = <<>>
      THEN RowsOf(n) = {}
      ELSE /\ Cardinality(RowsOf(n)) = 1
           /\ \A i \in RowsOf(n) : db[i].embedding = tobytes(enrolled[n][1])

\* C2 witness: a name that was enrolled before has been enrolled again with
\* another fingerprint, beside a row of another name.
C2_Witness ==
  /\ call.op = "register"
  /\ call.replaced
  /\ call.dbChanged
  /\ Len(db) = 2
  /\ enrolled[call.name] = <<call.ext.val.vec>>

\* C3: when the store holds identities whose fingerprint has the query's
\* length and identities whose fingerprint has another length, the score map
\* has exactly the former as keys and the verdict is granted or denied.
C3_DimensionIsolation ==
  (Compared /\ ComparableNames # {} /\ EnrolledNames \ ComparableNames # {}) =>
    /\ resp.kind = "json"
    /\ DOMAIN resp.body.probabilities = ComparableNames
    /\ resp.body.status \in {"granted", "denied"}

\* C3 witness: a query of length 4 against one row of length 4 and one of
\* length 3 was answered.
C3_Witness ==
  /\ Compared
  /\ Len(Query) = 4
  /\ ComparableNames # {}
  /\ EnrolledNames \ ComparableNames # {}
  /\ Cardinality(DOMAIN resp.body.probabilities) = 1

\* C4: on an empty store identify_speaker answers "error" with an empty
\* score map, no person and no confidence, whatever the extraction gave.
C4_EmptyStore ==
  (call.op = "identify" /\ db = <<>>) =>
    /\ resp.kind = "json"
    /\ resp.body.status = "error"
    /\ DOMAIN resp.body.probabilities = {}
    /\ ~resp.body.hasPerson
    /\ ~resp.body.hasConfidence

\* C4 witness: a fingerprint was extracted, the table was read and is empty.
C4_Witness ==
  /\ Compared
  /\ Len(Query) = 4
  /\ db = <<>>
  /\ resp.body.message = <<"No registered speakers found.">>

IdentifyFailed ==
  /\ call.op = "identify"
  /\ \/ call.ext.raised
     \/ call.st # "ok"
     \/ call.ext.val.isNone /\ db # <<>>
IdentifyCause ==
  IF call.ext.raised THEN call.ext.exc
  ELSE IF call.st # "ok" THEN call.st ELSE "AttributeError"

\* C5: /classify never ends with an exception, and a failure of the
\* extraction, of the read of the store or of the comparison makes
\* identify_speaker return status "error" with the failure's message and an
\* empty score map.
C5_NeverRaises ==
  /\ resp.route = "classify" => resp.kind = "json"
  /\ call.op = "identify" => ~call.raised
  /\ IdentifyFailed =>
       /\ resp.body.status = "error"
       /\ resp.body.message = IdentifyErrorMsg(IdentifyCause)
       /\ DOMAIN resp.body.probabilities = {}

\* C5 witness: the read of the store failed during a verification.
C5_Witness ==
  /\ call.op = "identify"
  /\ ~call.ext.raised
  /\ call.st = "sqlite3.Error"
  /\ resp.body.status = "error"

ExtractionEmpty ==
  /\ call.op = "register"
  /\ ~call.ext.raised
  /\ call.ext.val.isNone \/ Len(call.ext.val.vec) = 0

\* C6: when the extraction yields an empty or absent fingerprint, the
\* enrollment is reported as failed with the "failed to extract voice
\* features" message and the store is left unchanged.
C6_FailedExtraction ==
  ExtractionEmpty =>
    /\ resp.body.status # "success"
    /\ resp.body.message = FailedExtractMsg(call.name)
    /\ ~call.dbChanged

\* C7: no row of the table has an empty name, and a /register request with
\* an empty name is answered with the "No name provided" error without any
\* call of register_speaker.
C7_EmptyName ==
  /\ \A i \in 1..Len(db) : db[i].name # ""
  /\ enrolled[""] = <<>>
  /\ (resp.route = "register" /\ resp.name = "") =>
       /\ resp.kind = "json"
       /\ resp.body.status = "error"
       /\ resp.body.message = <<"No name provided for registration">>
       /\ call.op = "none"

\* C7 witness: an empty name was rejected while the store holds a row.
C7_Witness ==
  /\ resp.route = "register"
  /\ resp.name = ""
  /\ resp.body.status = "error"
  /\ db # <<>>

\* A failure inside register_speaker: the extraction raised, or the write to
\* the store did.
RegisterFailed ==
  /\ call.op = "register"
  /\ \/ call.ext.raised
     \/ ~call.ext.val.isNone /\ Len(call.ext.val.vec) > 0 /\ call.st # "ok"
RegisterCause == IF call.ext.raised THEN call.ext.exc ELSE call.st

\* C8 as stated: no exception leaves register_speaker.
C8_NoExceptionEscapes == call.op = "register" => ~call.raised

\* C8 amended: a failure inside register_speaker leaves it as an exception
\* "Error in register_speaker: ..."; /register catches it and answers with
\* status "error" and that message, and the store is unchanged.
C8_HandlerConverts ==
  /\ RegisterFailed =>
       /\ call.raised
       /\ resp.kind = "json"
       /\ resp.body.status = "error"
       /\ resp.body.message =
            <<"Error during registration", RegisterErrorMsg(RegisterCause)>>
       /\ ~call.dbChanged
  /\ (call.op = "register" /\ call.raised) => RegisterFailed

\* C8 witness: the write to the store failed during an enrollment.
C8_Witness ==
  /\ RegisterFailed
  /\ ~call.ext.raised
  /\ call.raised
  /\ resp.body.status = "error"

\* C9: the core is called only on a completely written recording, never
\* while the writer is still writing it.
C9_Handoff ==
  call.op # "none" => (call.file = "complete" /\ call.writer # "writing")

\* C10 as stated: remove_noise returns a waveform of the input's length for
\* every input.
C10_LengthPreserved ==
  cond.state = "done" => (~cond.raised /\ cond.len = audio)

\* C10 amended: for a waveform of more than 18 samples (filtfilt's padlen)
\* remove_noise returns a waveform of exactly the input's length, in the
\* branch with spectral subtraction and in the branch without; for a shorter
\* one it raises ValueError.
C10_LengthPreservedAbovePadlen ==
  cond.state = "done" =>
    IF audio > 18 THEN ~cond.raised /\ cond.len = audio ELSE cond.raised

\* C10 witness: spectral subtraction ran on a waveform whose length is no
\* multiple of the hop, so that the result was zero-padded.
C10_Witness ==
  /\ cond.state = "done"
  /\ 2 * audio > sr
  /\ audio % hop_length # 0
  /\ ~cond.raised
  /\ cond.len = audio

\* The rows of the table the query can be compared with, in the order of
\* the table, and the first of them at the least distance.
ComparableRows == {i \in 1..Len(db) : db[i].name \in ComparableNames}
AtMinimum(i) ==
  \A j \in ComparableRows :
    ~(Distance(db[j].name).num * Distance(db[i].name).den
        < Distance(db[i].name).num * Distance(db[j].name).den)
FirstAtMinimum(i) ==
  /\ i \in ComparableRows
  /\ AtMinimum(i)
  /\ \A j \in ComparableRows : AtMinimum(j) => i <= j

\* C11: with at least one comparable identity, the person of a granted
\* verdict is the first row of the table, in iteration order, among those at
\* the minimum cosine distance, and the confidence of a granted or denied
\* verdict is that of this minimum distance.
C11_BestMatch ==
  (Compared /\ ComparableNames # {}) =>
    \E i \in ComparableRows :
      /\ FirstAtMinimum(i)
      /\ resp.body.hasConfidence
      /\ resp.body.confidence = FormatPercent(Distance(db[i].name))
      /\ resp.body.status = "granted" =>
           (resp.body.hasPerson /\ resp.body.person = db[i].name)

\* C11 witness: two rows are at the same minimum distance from the query,
\* the verdict is granted and names the earlier row.
C11_Witness ==
  /\ Compared
  /\ Len(db) = 2
  /\ ComparableRows = {1, 2}
  /\ AtMinimum(1)
  /\ AtMinimum(2)
  /\ resp.body.status = "granted"
  /\ resp.body.person = db[1].name

=============================================================================
